---- MODULE Spec2Model ----
(***************************************************************************)
(* Model of scripts/generate.py: the run of main() that loads              *)
(* data/items.json, queries GDELT once per catalog topic, merges the hits  *)
(* into the stored items, trims the store to the last 30 days, sorts it    *)
(* newest-first and rewrites data/items.json.                              *)
(*                                                                         *)
(* Representation of Python values:                                        *)
(*   - None is the string Null; a falsy string is "" or Null.              *)
(*   - a title is the sequence of its words (<<>> is the empty title).     *)
(*   - a timestamp string is a record [kind, t, off]: the format it is     *)
(*     written in, the wall-clock second it shows and its UTC offset.      *)
(*   - a dict keyed by id (insertion ordered) is a sequence of items with  *)
(*     pairwise different ids, in insertion order.                         *)
(*   - times are seconds since the epoch.                                  *)
(***************************************************************************)
EXTENDS Integers, Sequences, FiniteSets, TLC

VARIABLES
    storeFile,       \* content of data/items.json on disk
    pc,              \* position of main(): "idle", "fetch", "done", "crashed"
    runs,            \* number of runs of main() started so far
    now,             \* now_utc of the current run
    existing_items,  \* build_items: value returned by _load_existing_items()
    seen_urls,       \* build_items: seen_urls
    seen_ids,        \* build_items: seen_ids
    items,           \* build_items: items (newly fetched this run)
    idx,             \* build_items: index in TOPICS of the next topic to fetch
    store,           \* build_items: store after the merge (before trimming)
    trimmed,         \* build_items: the returned list
    fetched,         \* topics for which gdelt_fetch was called this run, in call order
    okArts,          \* <<topic index, article>> returned by the fetches that did not raise
    failed,          \* topics whose fetch raised this run
    last,            \* the most recent gdelt_fetch call: what upstream had to say, and the outcome
    events,          \* articles returned and fetches that raised so far (all runs)
    prevRun          \* the previous run: how it ended, its clock and its okArts

vars == <<storeFile, pc, runs, now, existing_items, seen_urls, seen_ids, items,
          idx, store, trimmed, fetched, okArts, failed, last, events, prevRun>>

----------------------------------------------------------------------------
(* Bounds of the model. *)

\* articles upstream returns plus fetches that raise, over a whole behaviour
MaxEvents == 2
\* runs of main() in a behaviour
MaxRuns == 2

----------------------------------------------------------------------------
(* Program constants. *)

RetentionDays == 30
WindowHours == 48
SecondsPerHour == 60 * 60
SecondsPerDay == 24 * SecondsPerHour

Null == "<null>"
Falsy(s) == s = "" \/ s = Null

\* TOPICS: key and label of each catalog entry, in catalog order.
TOPICS ==
    << [key |-> "facility_new",             label |-> "New facility / warehouse / DC"],
       [key |-> "facility_expansion",       label |-> "Expansion / modernization"],
       [key |-> "manufacturing_investment", label |-> "Manufacturing investment"],
       [key |-> "warehouse_investment",     label |-> "Warehouse / logistics investment"],
       [key |-> "real_estate_signal",       label |-> "Industrial real estate / build-to-suit"],
       [key |-> "automation_signal",        label |-> "Automation project signal"],
       [key |-> "leadership_change",        label |-> "Leadership change (CEO/VP/Automation)"],
       [key |-> "revenue_update",           label |-> "Revenue / earnings update"],
       [key |-> "risk_urgency",             label |-> "Risk / urgency (closure, labor, disruption)"] >>

NumTopics == Len(TOPICS)

\* The order sorted() puts the catalog's keys and labels in (code point order).
KeyOrder ==
    << "automation_signal", "facility_expansion", "facility_new", "leadership_change",
       "manufacturing_investment", "real_estate_signal", "revenue_update",
       "risk_urgency", "warehouse_investment" >>

LabelOrder ==
    << "Automation project signal", "Expansion / modernization",
       "Industrial real estate / build-to-suit", "Leadership change (CEO/VP/Automation)",
       "Manufacturing investment", "New facility / warehouse / DC",
       "Revenue / earnings update", "Risk / urgency (closure, labor, disruption)",
       "Warehouse / logistics investment" >>

CA_PROVINCES ==
    << <<"Alberta">>, <<"British", "Columbia">>, <<"Manitoba">>, <<"New", "Brunswick">>,
       <<"Newfoundland">>, <<"Newfoundland", "and", "Labrador">>, <<"Nova", "Scotia">>,
       <<"Northwest", "Territories">>, <<"Nunavut">>, <<"Ontario">>,
       <<"Prince", "Edward", "Island">>, <<"Quebec">>, <<"Saskatchewan">>, <<"Yukon">> >>

US_STATES ==
    << <<"Alabama">>, <<"Alaska">>, <<"Arizona">>, <<"Arkansas">>, <<"California">>,
       <<"Colorado">>, <<"Connecticut">>, <<"Delaware">>, <<"Florida">>, <<"Georgia">>,
       <<"Hawaii">>, <<"Idaho">>, <<"Illinois">>, <<"Indiana">>, <<"Iowa">>, <<"Kansas">>,
       <<"Kentucky">>, <<"Louisiana">>, <<"Maine">>, <<"Maryland">>, <<"Massachusetts">>,
       <<"Michigan">>, <<"Minnesota">>, <<"Mississippi">>, <<"Missouri">>, <<"Montana">>,
       <<"Nebraska">>, <<"Nevada">>, <<"New", "Hampshire">>, <<"New", "Jersey">>,
       <<"New", "Mexico">>, <<"New", "York">>, <<"North", "Carolina">>,
       <<"North", "Dakota">>, <<"Ohio">>, <<"Oklahoma">>, <<"Oregon">>, <<"Pennsylvania">>,
       <<"Rhode", "Island">>, <<"South", "Carolina">>, <<"South", "Dakota">>,
       <<"Tennessee">>, <<"Texas">>, <<"Utah">>, <<"Vermont">>, <<"Virginia">>,
       <<"Washington">>, <<"West", "Virginia">>, <<"Wisconsin">>, <<"Wyoming">>,
       <<"District", "of", "Columbia">> >>

----------------------------------------------------------------------------
(* Sequences. *)

Range(s) == {s[i] : i \in 1..Len(s)}

\* sorted(set(a) | set(b)) for values of the catalog, in the given sorted order
SortedUnion(order, a, b) == SelectSeq(order, LAMBDA x : x \in Range(a) \cup Range(b))

\* the words of name occur in title, consecutively (re.search with \b...\b)
ContainsWords(title, name) ==
    \E i \in 1..(Len(title) - Len(name) + 1) :
        \A j \in 1..Len(name) : title[i + j - 1] = name[j]

\* " ".join(words)
RECURSIVE JoinWords(_)
JoinWords(words) ==
    IF Len(words) = 0 THEN ""
    ELSE IF Len(words) = 1 THEN words[1]
    ELSE words[1] \o " " \o JoinWords(Tail(words))

----------------------------------------------------------------------------
(* Strings: str.strip, str.upper, x or "". *)

OrEmpty(s) == IF Falsy(s) THEN "" ELSE s

\* str.strip() on the strings the model uses ("  " is a whitespace-only string)
Strip(s) ==
    CASE s = " https://b.example/2 " -> "https://b.example/2"
      [] s = "  " -> ""
      [] OTHER -> s

\* str.upper() on the country codes the model uses
Upper(s) ==
    CASE s = "us" -> "US"
      [] s = "ca" -> "CA"
      [] s = "mx" -> "MX"
      [] OTHER -> s

\* _stable_id: the first 16 hex digits of sha256(url); a function of the url
\* alone, and different urls of the model get different ids.
StableId(url) == "sha16(" \o url \o ")"

----------------------------------------------------------------------------
(* Timestamps. *)

None == [some |-> FALSE, t |-> 0]
Some(t) == [some |-> TRUE, t |-> t]

NullStamp == [kind |-> "null", t |-> 0, off |-> 0]

\* `not published`: None and the empty string
StampFalsy(p) == p.kind \in {"null", "empty"}

\* published.strip() raises AttributeError when published is a (non-zero) number:
\* line 216 is outside the try block.
ParseRaises(p) == p.kind = "number"

\* _parse_published, for a value it does not raise on.
\*   "space"    'YYYY-MM-DD HH:MM:SS'           strptime, taken as UTC
\*   "isoZ"     'YYYY-MM-DDTHH:MM:SSZ'          fromisoformat after Z -> +00:00
\*   "isoOff"   'YYYY-MM-DDTHH:MM:SS+hh:mm'     fromisoformat, converted to UTC
\*   "isoNaive" 'YYYY-MM-DDTHH:MM:SS'           fromisoformat, taken as UTC
\*   "compact"  'YYYYMMDDHHMMSS'                no "T": strptime raises ValueError
\*   "blank"    whitespace only                 strptime raises ValueError
ParsePublished(p) ==
    IF StampFalsy(p) THEN None
    ELSE CASE p.kind = "space" -> Some(p.t)
           [] p.kind = "isoZ" -> Some(p.t)
           [] p.kind = "isoNaive" -> Some(p.t)
           [] p.kind = "isoOff" -> Some(p.t - p.off)
           [] OTHER -> None

\* (a.get("seendate") or "").strip() or None
SeenDate(p) == IF p.kind \in {"null", "empty", "blank"} THEN NullStamp ELSE p

----------------------------------------------------------------------------
(* Geography. *)

\* index of the first name of the list that the title contains, 0 when none
FirstMatch(names, title) ==
    IF \E i \in 1..Len(names) : ContainsWords(title, names[i])
    THEN CHOOSE i \in 1..Len(names) :
            /\ ContainsWords(title, names[i])
            /\ \A j \in 1..(i - 1) : ~ContainsWords(title, names[j])
    ELSE 0

detect_region_and_country(title, source_country) ==
    LET p == FirstMatch(CA_PROVINCES, title)
        s == FirstMatch(US_STATES, title)
        sc == Upper(OrEmpty(source_country))
    IN  IF p > 0 THEN [region |-> JoinWords(CA_PROVINCES[p]), country |-> "CA"]
        ELSE IF s > 0 THEN [region |-> JoinWords(US_STATES[s]), country |-> "US"]
        ELSE IF sc \in {"US", "CA"} THEN [region |-> Null, country |-> sc]
        ELSE IF \E w \in {<<"Canada">>, <<"Ontario">>, <<"Quebec">>} : ContainsWords(title, w)
             THEN [region |-> Null, country |-> "CA"]
        ELSE IF \E w \in {<<"United", "States">>, <<"USA">>, <<"U.S.">>} : ContainsWords(title, w)
             THEN [region |-> Null, country |-> "US"]
        ELSE [region |-> Null, country |-> Null]

is_us_or_ca(a) ==
    LET rc == detect_region_and_country(a.title, a.sourceCountry)
    IN  rc.country \in {"US", "CA"} \/ rc.region # Null

----------------------------------------------------------------------------
(* Signals. A number of the text is a word; NoNumber stands for None. *)

NoNumber == 0 - 1

\* float(group(1).replace(",", "")) of a numeric word, NoNumber for other words
NumberOf(w) ==
    CASE w = "5" -> 5
      [] w = "120" -> 120
      [] w = "50,000" -> 50000
      [] OTHER -> NoNumber

\* the characters of a numeric word ([0-9,] only)
NumberChars(w) ==
    CASE w = "5" -> 1
      [] w = "120" -> 3
      [] w = "50,000" -> 6
      [] OTHER -> 0

\* the amount of a word "$<number>", NoNumber for other words
MoneyOf(w) ==
    CASE w = "$5" -> 5
      [] w = "$120" -> 120
      [] OTHER -> NoNumber

\* _normalize_money
Multiplier(w) ==
    CASE w \in {"B", "b", "billion"} -> 1000000000
      [] w \in {"M", "m", "million"} -> 1000000
      [] w \in {"K", "k", "thousand"} -> 1000
      [] OTHER -> 1

WordAt(text, i) == IF i \in 1..Len(text) THEN text[i] ELSE ""

\* re.search: the first of the positions that match, 0 when none does
FirstIndex(matches) ==
    IF matches = {} THEN 0 ELSE CHOOSE i \in matches : \A j \in matches : i <= j

extract_signals(text) ==
    LET IsMoney(i) == MoneyOf(text[i]) # NoNumber
        IsSqft(i) ==
            /\ NumberChars(text[i]) >= 3
            /\ \/ WordAt(text, i + 1) \in {"sqft", "sf"}
               \/ <<WordAt(text, i + 1), WordAt(text, i + 2)>> \in
                      {<<"sq", "ft">>, <<"square", "feet">>}
        IsJobs(i) ==
            /\ NumberChars(text[i]) >= 2
            /\ WordAt(text, i + 1) \in {"jobs", "job"}
        m == FirstIndex({i \in 1..Len(text) : IsMoney(i)})
        s == FirstIndex({i \in 1..Len(text) : IsSqft(i)})
        j == FirstIndex({i \in 1..Len(text) : IsJobs(i)})
    IN  [has |-> TRUE,
         investment_usd |-> IF m = 0 THEN NoNumber
                            ELSE MoneyOf(text[m]) * Multiplier(WordAt(text, m + 1)),
         sqft |-> IF s = 0 THEN NoNumber ELSE NumberOf(text[s]),
         jobs |-> IF j = 0 THEN NoNumber ELSE NumberOf(text[j])]

\* item.get("signals") when the key is missing: has = FALSE (falsy); the dict
\* extract_signals returns is truthy whatever its values are.
NoSignals == [has |-> FALSE, investment_usd |-> NoNumber, sqft |-> NoNumber, jobs |-> NoNumber]

----------------------------------------------------------------------------
(* Items. *)

\* an id that cannot be a dict key or a set member (a JSON array such as ["x"])
Unhashable == "<list>"

\* lines 294-308: the item build_items makes of article a found under TOPICS[ti]
NewItem(ti, a) ==
    LET url == Strip(OrEmpty(a.url))
        source_country == IF Falsy(Upper(Strip(OrEmpty(a.sourceCountry)))) THEN Null
                          ELSE Upper(Strip(OrEmpty(a.sourceCountry)))
        domain == Strip(OrEmpty(a.domain))
        rc == detect_region_and_country(a.title, source_country)
    IN  [isdict |-> TRUE,
         id |-> StableId(url),
         title |-> a.title,
         url |-> url,
         source |-> IF ~Falsy(domain) THEN domain
                    ELSE IF ~Falsy(a.sourceCollection) THEN a.sourceCollection
                    ELSE "(unknown)",
         source_country |-> source_country,
         published |-> SeenDate(a.seendate),
         topics |-> <<TOPICS[ti].key>>,
         topic_labels |-> <<TOPICS[ti].label>>,
         region |-> rc.region,
         country |-> rc.country,
         signals |-> extract_signals(a.title)]

\* an entry of the stored list that is not a dict (a string, a number, ...)
NonDict ==
    [isdict |-> FALSE, id |-> Null, title |-> <<>>, url |-> Null, source |-> Null,
     source_country |-> Null, published |-> NullStamp, topics |-> <<>>,
     topic_labels |-> <<>>, region |-> Null, country |-> Null, signals |-> NoSignals]

----------------------------------------------------------------------------
(* The clock, and the inputs of the model. *)

Now0 == 100 * SecondsPerDay
Now1 == Now0 + SecondsPerDay
NowValues == {Now0, Now1}

\* exactly now - 30 days for a run at Now0, older than that for a run at Now1
AtCutoff0 == Now0 - RetentionDays * SecondsPerDay
\* older than now - 30 days for every run
Stale == AtCutoff0 - SecondsPerDay

Article(url, title, domain, sourceCountry, seendate) ==
    [url |-> url, title |-> title, domain |-> domain, sourceCountry |-> sourceCountry,
     seendate |-> seendate, sourceCollection |-> Null]

\* a seendate _parse_published cannot parse
ArtOntario ==
    Article("https://a.example/1", <<"Ontario", "hub", "50,000", "sq", "ft">>, "a.example",
            "CA", [kind |-> "compact", t |-> Now0 - SecondsPerDay, off |-> 0])
\* its url is the url of ItemTexas, seen again with a fresh seendate
ArtTexas ==
    Article(" https://b.example/2 ", <<"Texas", "plant", "adds", "120", "jobs">>, "",
            "us", [kind |-> "isoZ", t |-> Now0 - SecondsPerHour, off |-> 0])
\* not about the US or Canada
ArtElsewhere ==
    Article("https://c.example/3", <<"New", "plant", "opens">>, "c.example",
            "mx", [kind |-> "space", t |-> Now0 - SecondsPerHour, off |-> 0])
\* a seendate upstream writes with an offset, exactly at the cutoff of a run at Now0
ArtOld ==
    Article("https://d.example/4", <<"USA", "plant", "gets", "$5", "million">>, "d.example",
            Null, [kind |-> "isoOff", t |-> AtCutoff0 + SecondsPerHour, off |-> SecondsPerHour])

ArtPool == {ArtOntario, ArtTexas, ArtElsewhere, ArtOld}

\* stored items an earlier run of build_items wrote: ItemTexas more than 30 days
\* before Now0
ItemOntario == NewItem(1, ArtOntario)
ItemTexas ==
    NewItem(2, [ArtTexas EXCEPT !.seendate = [kind |-> "space", t |-> Stale, off |-> 0]])
\* stored entries build_items did not write: an entry with the id of ArtOntario's
\* url, no url and some fields empty; an entry without id; an entry whose
\* published is a number; an entry whose id is a list
ItemPartial ==
    [isdict |-> TRUE, id |-> StableId("https://a.example/1"), title |-> <<>>, url |-> Null,
     source |-> "wire.example", source_country |-> Null, published |-> NullStamp,
     topics |-> <<"risk_urgency">>,
     topic_labels |-> <<"Risk / urgency (closure, labor, disruption)">>,
     region |-> "Quebec", country |-> Null, signals |-> NoSignals]
ItemNoId == [ItemTexas EXCEPT !.id = Null]
ItemNumberPublished ==
    [ItemOntario EXCEPT !.published = [kind |-> "number", t |-> 0, off |-> 0]]
ItemListId == [ItemOntario EXCEPT !.id = Unhashable]

NoMeta == [generated_at |-> 0, window_start |-> 0, window_end |-> 0, source |-> ""]

\* data/items.json: kind is "missing" (no file), "badjson" (not JSON), "nonobject"
\* (JSON, not an object) or "object"; items.kind is "absent", "number", "string" or "list".
File(kind, itemsKind, elems) ==
    [kind |-> kind, meta |-> NoMeta, items |-> [kind |-> itemsKind, elems |-> elems]]

StoreFiles ==
    { File("missing", "absent", <<>>),
      File("badjson", "absent", <<>>),
      File("nonobject", "absent", <<>>),
      File("object", "number", <<>>),
      File("object", "string", <<NonDict, NonDict>>),
      File("object", "list", <<ItemTexas, ItemOntario>>),
      File("object", "list", <<ItemPartial>>),
      File("object", "list", <<ItemNoId, ItemOntario>>),
      File("object", "list", <<NonDict, ItemNumberPublished>>),
      File("object", "list", <<ItemListId>>) }

----------------------------------------------------------------------------
(* Upstream: the answers to the HTTP requests of one gdelt_fetch call. *)

\* status 0: no response (timeout, connection error)
Response(status, body, arts, retry_after) ==
    [status |-> status, body |-> body, arts |-> arts, retry_after |-> retry_after]

Ok(arts) == Response(200, "json", arts, 0)
TooMany == Response(429, "none", <<>>, 5)

Responses ==
    {Ok(<<a>>) : a \in ArtPool} \cup
    { Ok(<<>>),
      Response(200, "empty", <<>>, 0),
      Response(200, "noarticles", <<>>, 0),
      Response(200, "html", <<>>, 0),
      TooMany,
      Response(500, "none", <<>>, 0),
      Response(404, "none", <<>>, 0),
      Response(0, "none", <<>>, 0) }

\* what upstream answers to the first request of a call and, were there one, to
\* the second
Scripts == {<<r>> : r \in Responses} \cup {<<TooMany, Ok(<<ArtOntario>>)>>}

----------------------------------------------------------------------------
(* gdelt_fetch and _load_existing_items. *)

\* gdelt_fetch: one requests.get, raise_for_status, then the "articles" of the
\* JSON body. requests is the number of HTTP requests the call makes.
gdelt_fetch(script) ==
    LET r == script[1]
    IN  IF r.status = 0 \/ r.status >= 400 \/ r.body = "html"
        THEN [raised |-> TRUE, arts |-> <<>>, requests |-> 1]
        ELSE [raised |-> FALSE,
              arts |-> IF r.body = "json" THEN r.arts ELSE <<>>,
              requests |-> 1]

\* The topics (indices in TOPICS: the first, one in the middle, the last) whose
\* query upstream has articles for or fails on; it answers the queries of the
\* other topics with no article.
HitTopics == {1, 6, NumTopics}

Uneventful(script) == ~gdelt_fetch(script).raised /\ Len(gdelt_fetch(script).arts) = 0

\* _load_existing_items: payload.get("items") or [], and [] on any exception.
\* iterable is FALSE for a value a for loop cannot iterate (a non-zero number).
_load_existing_items(file) ==
    IF file.kind # "object" \/ file.items.kind = "absent"
    THEN [iterable |-> TRUE, elems |-> <<>>]
    ELSE [iterable |-> file.items.kind # "number", elems |-> file.items.elems]

----------------------------------------------------------------------------
(* build_items. *)

\* lines 253-258: the urls and ids of the existing dict entries
SeedUrls(elems) == {it.url : it \in {e \in Range(elems) : e.isdict /\ ~Falsy(e.url)}}
SeedIds(elems) == {it.id : it \in {e \in Range(elems) : e.isdict /\ ~Falsy(e.id)}}
\* seen_ids.add(it["id"]) raises TypeError
SeedRaises(elems) == \E e \in Range(elems) : e.isdict /\ e.id = Unhashable

\* lines 272-274: the topic index the loop goes on with after gdelt_fetch raised
OnFetchErrorBreak(i) == NumTopics + 1
OnFetchError(i) == i + 1

\* lines 276-308: the articles of one topic, in order
RECURSIVE ProcessArticles(_, _, _, _)
ProcessArticles(arts, ti, its, seen) ==
    IF Len(arts) = 0 THEN [items |-> its, seen_urls |-> seen]
    ELSE LET a == Head(arts)
             url == Strip(OrEmpty(a.url))
         IN  IF url = "" \/ Len(a.title) = 0 \/ url \in seen \/ ~is_us_or_ca(a)
             THEN ProcessArticles(Tail(arts), ti, its, seen)
             ELSE ProcessArticles(Tail(arts), ti, Append(its, NewItem(ti, a)),
                                  seen \cup {url})

IndexOfId(d, id) ==
    IF \E i \in 1..Len(d) : d[i].id = id
    THEN CHOOSE i \in 1..Len(d) : d[i].id = id
    ELSE 0

\* d[it["id"]] = it on an insertion-ordered dict
Put(d, it) ==
    LET i == IndexOfId(d, it.id)
    IN  IF i = 0 THEN Append(d, it) ELSE [d EXCEPT ![i] = it]

\* sorted(set(old) | set(new)) of topic keys
MergeTopicsReplace(old, new) == SortedUnion(KeyOrder, new, new)
MergeTopics(old, new) == SortedUnion(KeyOrder, old, new)
MergeLabels(old, new) == SortedUnion(LabelOrder, old, new)

\* lines 311-318
RECURSIVE MergeById(_, _)
MergeById(its, merged) ==
    IF Len(its) = 0 THEN merged
    ELSE LET it == Head(its)
             i == IndexOfId(merged, it.id)
         IN  MergeById(Tail(its),
                 IF i = 0 THEN Append(merged, it)
                 ELSE [merged EXCEPT
                          ![i].topics = MergeTopics(merged[i].topics, it.topics),
                          ![i].topic_labels = MergeLabels(merged[i].topic_labels,
                                                          it.topic_labels)])

\* lines 321-325
RECURSIVE StoreOfExisting(_, _)
StoreOfExisting(elems, d) ==
    IF Len(elems) = 0 THEN d
    ELSE LET it == Head(elems)
         IN  StoreOfExisting(Tail(elems),
                 IF ~it.isdict \/ Falsy(it.id) THEN d ELSE Put(d, it))

\* lines 333-335, for one key: `if not store[mid].get(k) and it.get(k)`
FillOverwrite(stored, incoming, storedFalsy, incomingFalsy) ==
    IF ~incomingFalsy THEN incoming ELSE stored
Fill(stored, incoming, storedFalsy, incomingFalsy) ==
    IF storedFalsy /\ ~incomingFalsy THEN incoming ELSE stored

\* lines 329-335: incoming item it merged into the stored item old
MergeItem(old, it) ==
    [old EXCEPT
        !.topics = MergeTopics(old.topics, it.topics),
        !.topic_labels = MergeLabels(old.topic_labels, it.topic_labels),
        !.title = Fill(old.title, it.title, Len(old.title) = 0, Len(it.title) = 0),
        !.source = Fill(old.source, it.source, Falsy(old.source), Falsy(it.source)),
        !.source_country = Fill(old.source_country, it.source_country,
                                Falsy(old.source_country), Falsy(it.source_country)),
        !.published = Fill(old.published, it.published,
                           StampFalsy(old.published), StampFalsy(it.published)),
        !.region = Fill(old.region, it.region, Falsy(old.region), Falsy(it.region)),
        !.country = Fill(old.country, it.country, Falsy(old.country), Falsy(it.country)),
        !.signals = Fill(old.signals, it.signals, ~old.signals.has, ~it.signals.has)]

\* lines 327-337
RECURSIVE MergeIntoStore(_, _)
MergeIntoStore(d, merged) ==
    IF Len(merged) = 0 THEN d
    ELSE LET it == Head(merged)
             i == IndexOfId(d, it.id)
         IN  MergeIntoStore(
                 IF i = 0 THEN Append(d, it) ELSE [d EXCEPT ![i] = MergeItem(d[i], it)],
                 Tail(merged))

Cutoff(n) == n - RetentionDays * SecondsPerDay

\* line 345: `dt is None or dt >= cutoff`
KeepItemStrict(it, cutoff) ==
    LET dt == ParsePublished(it.published) IN ~dt.some \/ dt.t > cutoff
KeepItemParsedOnly(it, cutoff) ==
    LET dt == ParsePublished(it.published) IN dt.some /\ dt.t >= cutoff
KeepItem(it, cutoff) ==
    LET dt == ParsePublished(it.published) IN ~dt.some \/ dt.t >= cutoff

\* lines 342-346
Trim(d, cutoff) == SelectSeq(d, LAMBDA it : KeepItem(it, cutoff))

\* line 349: the sort key, datetime(1970, 1, 1) for an item without a parsed time
SortKey(it) == LET dt == ParsePublished(it.published) IN IF dt.some THEN dt.t ELSE 0

\* x put into the newest-first list s behind every element whose key is not smaller
InsertNewestFirst(s, x) ==
    LET n == Cardinality({i \in 1..Len(s) : SortKey(s[i]) >= SortKey(x)})
    IN  SubSeq(s, 1, n) \o <<x>> \o SubSeq(s, n + 1, Len(s))

\* list.sort(key=..., reverse=True): stable, newest first
RECURSIVE SortNewestFirst(_, _)
SortNewestFirst(its, sorted) ==
    IF Len(its) = 0 THEN sorted
    ELSE SortNewestFirst(Tail(its), InsertNewestFirst(sorted, Head(its)))

\* some item of the store makes _parse_published raise (lines 344, 349)
TrimRaises(d) == \E it \in Range(d) : ParseRaises(it.published)

\* lines 261-266
Meta(n) ==
    [generated_at |-> n, window_start |-> n - WindowHours * SecondsPerHour,
     window_end |-> n, source |-> "GDELT 2.1 Doc API"]

\* write_json, and the same file read back
Written(its, meta) == [kind |-> "object", meta |-> meta, items |-> [kind |-> "list", elems |-> its]]

----------------------------------------------------------------------------
(* The state machine: runs of main(), one after the other. *)

\* last.status is the status of the first answer; last.retry holds the articles
\* of the answer upstream had for a second request
NoLast == [topic |-> 0, status |-> 0, retry |-> <<>>, raised |-> FALSE, requests |-> 0,
           arts |-> <<>>]
NoRun == [ended |-> "idle", now |-> Now0, arts |-> <<>>]

Init ==
    /\ storeFile \in StoreFiles
    /\ pc = "idle"
    /\ runs = 0
    /\ now = Now0
    /\ existing_items = <<>>
    /\ seen_urls = {}
    /\ seen_ids = {}
    /\ items = <<>>
    /\ idx = 1
    /\ store = <<>>
    /\ trimmed = <<>>
    /\ fetched = <<>>
    /\ okArts = <<>>
    /\ failed = {}
    /\ last = NoLast
    /\ events = 0
    /\ prevRun = NoRun

\* main, lines 379-380, and build_items, lines 245-266: the clock is read, the
\* store is loaded and the seen sets are seeded. An exception ends the process.
\* The first run is at Now0, a later run at the same instant or a day later.
StartRun ==
    /\ pc \in {"idle", "done", "crashed"}
    /\ runs < MaxRuns
    /\ \E n \in NowValues :
        LET loaded == _load_existing_items(storeFile)
            raises == ~loaded.iterable \/ SeedRaises(loaded.elems)
        IN  /\ n >= now
            /\ runs = 0 => n = Now0
            /\ now' = n
            /\ runs' = runs + 1
            /\ prevRun' = [ended |-> pc, now |-> now, arts |-> okArts]
            /\ existing_items' = loaded.elems
            /\ seen_urls' = IF raises THEN {} ELSE SeedUrls(loaded.elems)
            /\ seen_ids' = IF raises THEN {} ELSE SeedIds(loaded.elems)
            /\ pc' = IF raises THEN "crashed" ELSE "fetch"
            /\ idx' = 1
            /\ items' = <<>>
            /\ store' = <<>>
            /\ trimmed' = <<>>
            /\ fetched' = <<>>
            /\ okArts' = <<>>
            /\ failed' = {}
            /\ last' = NoLast
            /\ UNCHANGED <<storeFile, events>>

\* build_items, lines 268-308: one iteration of the loop over TOPICS
FetchTopic ==
    /\ pc = "fetch"
    /\ idx <= NumTopics
    /\ \E script \in Scripts :
        LET res == gdelt_fetch(script)
            got == ProcessArticles(res.arts, idx, items, seen_urls)
            cost == IF res.raised THEN 1 ELSE Len(res.arts)
        IN  /\ idx \notin HitTopics => Uneventful(script)
            /\ events + cost <= MaxEvents
            /\ events' = events + cost
            /\ fetched' = Append(fetched, idx)
            /\ last' = [topic |-> idx, status |-> script[1].status,
                        retry |-> IF Len(script) > 1 THEN script[2].arts ELSE <<>>,
                        raised |-> res.raised, requests |-> res.requests,
                        arts |-> res.arts]
            /\ IF res.raised
               THEN /\ idx' = OnFetchError(idx)
                    /\ failed' = failed \cup {idx}
                    /\ UNCHANGED <<items, seen_urls, okArts>>
               ELSE /\ idx' = idx + 1
                    /\ UNCHANGED failed
                    /\ items' = got.items
                    /\ seen_urls' = got.seen_urls
                    /\ okArts' = okArts \o [i \in 1..Len(res.arts) |-> <<idx, res.arts[i]>>]
            /\ UNCHANGED <<storeFile, pc, runs, now, existing_items, seen_ids, store,
                           trimmed, prevRun>>

\* build_items, lines 310-350, and main, lines 381-384: the merges, the trim, the
\* sort and write_json. An exception of _parse_published ends the process with
\* the file as it was.
Finish ==
    /\ pc = "fetch"
    /\ idx > NumTopics
    /\ LET merged == MergeById(items, <<>>)
           st == MergeIntoStore(StoreOfExisting(existing_items, <<>>), merged)
           out == SortNewestFirst(Trim(st, Cutoff(now)), <<>>)
       IN  /\ store' = st
           /\ IF TrimRaises(st)
              THEN /\ pc' = "crashed"
                   /\ UNCHANGED <<storeFile, trimmed>>
              ELSE /\ pc' = "done"
                   /\ trimmed' = out
                   /\ storeFile' = Written(out, Meta(now))
    /\ last' = NoLast
    /\ UNCHANGED <<runs, now, existing_items, seen_urls, seen_ids, items, idx, fetched,
                   okArts, failed, events, prevRun>>

Next == StartRun \/ FetchTopic \/ Finish

Spec == Init /\ [][Next]_vars

----------------------------------------------------------------------------
(* build_items as a function of the loaded store, the clock and the articles   *)
(* the fetches returned.                                                       *)

RECURSIVE ItemsOf(_, _, _)
ItemsOf(arts, its, seen) ==
    IF Len(arts) = 0 THEN its
    ELSE LET got == ProcessArticles(<<Head(arts)[2]>>, Head(arts)[1], its, seen)
         IN  ItemsOf(Tail(arts), got.items, got.seen_urls)

BuildFrom(existing, n, arts) ==
    SortNewestFirst(
        Trim(MergeIntoStore(StoreOfExisting(existing, <<>>),
                            MergeById(ItemsOf(arts, <<>>, SeedUrls(existing)), <<>>)),
             Cutoff(n)),
        <<>>)

----------------------------------------------------------------------------
(* Properties. *)

Done == pc = "done"

\* the stored entries build_items writes: dicts with an id
WellFormed(elems) == \A e \in Range(elems) : e.isdict /\ ~Falsy(e.id) /\ e.id # Unhashable

\* the article passes lines 277-284 but for the seen-url test
Usable(a) == Strip(OrEmpty(a.url)) # "" /\ Len(a.title) > 0 /\ is_us_or_ca(a)

\* C1: a run in which no fetch yields a usable article leaves the persisted
\* store of N > 0 items with exactly the same items, unchanged.
PreserveOnEmpty ==
    (Done /\ Len(items) = 0 /\ Len(existing_items) > 0 /\ WellFormed(existing_items))
        => storeFile.items.elems = existing_items

\* C2: for every url observed this run, the one stored item of that url carries
\* the union of the topics it was stored with and the topics it was returned
\* under.
TopicUnionPerId ==
    Done =>
        \A e \in Range(okArts) :
            LET u == Strip(OrEmpty(e[2].url))
                at == {i \in 1..Len(trimmed) : trimmed[i].id = StableId(u)}
                prior == UNION {Range(x.topics) :
                                x \in {y \in Range(existing_items) :
                                       y.isdict /\ y.id = StableId(u)}}
                derived == {TOPICS[x[1]].key :
                            x \in {y \in Range(okArts) :
                                   Strip(OrEmpty(y[2].url)) = u /\ Usable(y[2])}}
            IN  (Usable(e[2]) /\ at # {}) =>
                    /\ Cardinality(at) = 1
                    /\ \A i \in at : Range(trimmed[i].topics) = prior \cup derived

\* C3: a second run with the same clock and the same fetched article, reading
\* the first run's output, returns the list the first run returned.
IdempotentMerge ==
    (Done /\ prevRun.ended = "done" /\ prevRun.now = now /\ prevRun.arts = okArts
          /\ Len(okArts) > 0)
        => trimmed = existing_items

\* C4: an item stored before and after a run has, after it, every topic it had
\* before.
MonotoneTopicGrowth ==
    Done =>
        \A old \in Range(existing_items) : \A new \in Range(trimmed) :
            (old.isdict /\ ~Falsy(old.id) /\ new.id = old.id)
                => Range(old.topics) \subseteq Range(new.topics)

MonotoneTopicGrowthWitness ==
    /\ Done
    /\ \E old \in Range(existing_items) : \E new \in Range(trimmed) :
        /\ old.isdict /\ new.id = old.id
        /\ Range(old.topics) # {}
        /\ Range(old.topics) # Range(new.topics)

\* C5: every item of the merged store whose published is absent or does not
\* parse is in the list build_items returns, at every clock.
FailOpenPruning ==
    Done => \A it \in Range(store) :
                ~ParsePublished(it.published).some => it \in Range(trimmed)

FailOpenPruningWitness ==
    /\ Done
    /\ now = Now1
    /\ \E it \in Range(store) :
        /\ ~StampFalsy(it.published)
        /\ ~ParsePublished(it.published).some
        /\ it \in Range(trimmed)
    /\ Len(trimmed) < Len(store)

\* C6: a fetch that raises does not end the run: the loop goes on with the next
\* topic, every catalog topic is fetched once, in catalog order, and the run
\* returns what it returns when the failed topics return no article.
FailureIsolation ==
    /\ last.raised => (pc = "fetch" /\ idx = last.topic + 1)
    /\ pc = "fetch" => fetched = [i \in 1..(idx - 1) |-> i]
    /\ Done => /\ fetched = [i \in 1..NumTopics |-> i]
               /\ trimmed = BuildFrom(existing_items, now, okArts)
               /\ \A e \in Range(okArts) : e[1] \notin failed

FailureIsolationWitness ==
    /\ Done
    /\ failed # {}
    /\ \E e \in Range(okArts) :
        /\ \E f \in failed : f < e[1]
        /\ \E it \in Range(trimmed) : it.id = StableId(Strip(e[2].url))

\* C7: a query answered 429 and then, on a second request, 200 is requested a
\* second time, and the fetch returns the articles of the second answer.
RetryOnRateLimit ==
    (last.status = 429 /\ Len(last.retry) > 0)
        => (last.requests = 2 /\ ~last.raised /\ last.arts = last.retry)

\* C8: whatever data/items.json holds, the run does not fail.
PermissiveStoreRead == pc # "crashed"

RetentionBound ==
    Done =>
        /\ \A it \in Range(trimmed) :
            ParsePublished(it.published).some
                => ParsePublished(it.published).t >= now - RetentionDays * SecondsPerDay
        /\ \A it \in Range(store) :
            ParsePublished(it.published) = Some(now - RetentionDays * SecondsPerDay)
                => it \in Range(trimmed)
        /\ storeFile.items.elems = trimmed

RetentionBoundWitness ==
    /\ Done
    /\ \E it \in Range(items) :
        /\ ParsePublished(it.published) = Some(now - RetentionDays * SecondsPerDay)
        /\ it \in Range(trimmed)
    /\ \E it \in Range(existing_items) : it.isdict /\ it \notin Range(trimmed)

====
